---- MODULE Spec2Model ----
(***************************************************************************)
(* Model of starlight's certificate checker (checker.go).                  *)
(*                                                                         *)
(* handleRequest decodes a list of domains and calls checker, which cuts   *)
(* the list into groups of `concurrent` domains and hands each group to    *)
(* processBatch.  processBatch starts one goroutine per domain; every      *)
(* goroutine probes its domain (checkDomain) and stores the answer in the  *)
(* shared SafeMap (Ins), then signals the WaitGroup.  processBatch waits   *)
(* on the WaitGroup before it returns.                                     *)
(*                                                                         *)
(* Goroutines are anonymous, so the live goroutines are kept as a bag of   *)
(* records; two goroutines at the same place with the same data are        *)
(* interchangeable.                                                        *)
(***************************************************************************)
EXTENDS Bags, FiniteSets, Integers, Sequences, TLC

(* ----------------------------- bounds --------------------------------- *)

\* Longest domain list a request carries.
MaxLen == 11

\* Longest list that mixes the kinds of host.
MaxShort == 4

\* Longest list of a request served while another is being served.
MaxOverlap == 2

\* Most calls of Ins and Retrieve made on a SafeMap tried on its own.
MaxCalls == 3

\* Longest certificate validity, in days, given to the formatting alone.
MaxDays == 31

\* The requests served: a client sends a list and may send it again.
Inv == {1, 2}

(* ------------------------ program constants --------------------------- *)

concurrent == 10

SecondsPerDay == 86400

(* ----------------------------- the network ---------------------------- *)

\* The hosts a request may name.  What tls.Dial does is a property of the
\* host: "up" always completes the handshake, "down" always refuses,
\* "flaky" does one or the other, "silent" never answers.
Domains == {"up", "down", "flaky", "silent"}

\* Whether tls.Dial("tcp", host, nil) can return err /= nil.
DialMayFail(domain) == domain \in {"down", "flaky"}

\* Whether tls.Dial can return a connection.
DialMayConnect(domain) == domain \in {"up", "flaky"}

\* err.Error() of a failed dial.
DialError(domain) == "dial tcp " \o domain \o ":443: connect: connection refused"

\* cert.NotAfter.Sub(timeNow) of the host's leaf certificate, in seconds.
NotAfterSub(domain) ==
    IF domain = "up" THEN 30 * SecondsPerDay - 1 ELSE 90 * SecondsPerDay

(* -------------------------- pure functions ---------------------------- *)

Digit(d) == SubSeq("0123456789", d + 1, d + 1)

RECURSIVE Itoa(_)
\* The decimal digits of a natural number.
Itoa(n) == IF n < 10 THEN Digit(n) ELSE Itoa(n \div 10) \o Digit(n % 10)

\* FormatDays that cuts the fraction off instead of rounding.
FormatDaysTruncated(seconds) ==
    LET a == IF seconds < 0 THEN -seconds ELSE seconds
    IN  (IF seconds < 0 THEN "-" ELSE "") \o Itoa(a \div SecondsPerDay)

\* strconv.FormatFloat(x, 'f', 0, 64) for x = seconds/86400: the nearest
\* integer, a tie going to the even one, the sign kept ("-0").
FormatDays(seconds) ==
    LET a == IF seconds < 0 THEN -seconds ELSE seconds
        q == a \div SecondsPerDay
        r == a % SecondsPerDay
        n == IF 2 * r > SecondsPerDay THEN q + 1
             ELSE IF 2 * r < SecondsPerDay THEN q
             ELSE IF q % 2 = 0 THEN q ELSE q + 1
    IN  (IF seconds < 0 THEN "-" ELSE "") \o Itoa(n)

\* The strings checkDomain(domain) can return; none when the dial hangs.
checkDomain(domain) ==
    (IF DialMayFail(domain) THEN {DialError(domain)} ELSE {})
    \cup (IF DialMayConnect(domain) THEN {FormatDays(NotAfterSub(domain))} ELSE {})

\* Slice with the upper limit left out of both branches: domainsList[i:].
SliceToEnd(list, i) == SubSeq(list, i + 1, Len(list))

\* Slice with the last, shorter group cut one short: domainsList[i:len-1].
SliceTailShort(list, i) ==
    IF i + concurrent > Len(list)
    THEN SubSeq(list, i + 1, Len(list) - 1)
    ELSE SubSeq(list, i + 1, i + concurrent)

\* domainsList[i:] or domainsList[i:i+concurrent] (i counts from 0).
Slice(list, i) ==
    IF i + concurrent > Len(list)
    THEN SubSeq(list, i + 1, Len(list))
    ELSE SubSeq(list, i + 1, i + concurrent)

Range(s) == {s[k] : k \in 1..Len(s)}

(* ------------------------------ inputs -------------------------------- *)

\* The shapes of list a request carries, as the domain at position k.
PatUp(k) == "up"
PatDet(k) == IF k % concurrent = 1 THEN "down" ELSE "up"
PatCross(k) == IF k % concurrent = 1 THEN "flaky" ELSE "up"
PatSilent(k) == IF k = 2 THEN "silent" ELSE "up"
PatLate(k) == IF k > concurrent THEN "down" ELSE "up"
PatMixed(k) == IF k % 3 = 1 THEN "flaky" ELSE IF k % 3 = 2 THEN "down" ELSE "up"

\* The first n domains of a shape.
Prefix(shape, n) ==
    [k \in 1..n |-> CASE shape = "up" -> PatUp(k)
                      [] shape = "det" -> PatDet(k)
                      [] shape = "cross" -> PatCross(k)
                      [] shape = "silent" -> PatSilent(k)
                      [] shape = "late" -> PatLate(k)
                      [] shape = "mixed" -> PatMixed(k)]

\* Lists of hosts whose probe has one possible result.
DeterministicLists ==
    {Prefix("up", n) : n \in 0..MaxLen} \cup {Prefix("det", n) : n \in 0..MaxLen}

MixedLists == {Prefix("mixed", n) : n \in 0..MaxShort}

InputLists ==
    DeterministicLists \cup MixedLists
    \cup {Prefix("cross", n) : n \in 0..MaxLen}
    \cup {Prefix("silent", n) : n \in 0..MaxLen}
    \cup {Prefix("late", n) : n \in 0..MaxLen}

\* The lists whose requests are followed to their end under fair
\* scheduling: a failure in the second group, every mix of hosts in a short
\* list, and a host that never answers.
FairLists ==
    {Prefix("late", n) : n \in concurrent..MaxLen} \cup MixedLists
    \cup {Prefix("silent", n) : n \in 0..MaxShort}

\* The lists a client sends twice.
RepeatLists == DeterministicLists \cup MixedLists

(* ----------------------------- requests ------------------------------ *)

\* The Content-Type headers tried; "" is a request without the header.
ContentTypes ==
    {"", "application/json", "application/json; charset=utf-8", "text/plain"}

\* header.ParseValueAndParams: the value up to the first ";".
RECURSIVE MediaType(_)
MediaType(ct) ==
    IF ct = "" \/ SubSeq(ct, 1, 1) = ";" THEN ""
    ELSE SubSeq(ct, 1, 1) \o MediaType(SubSeq(ct, 2, Len(ct)))

\* The bodies tried, by what the bytes are:
\*   "list"          one JSON object {"Domains": [...]} and nothing else
\*   "list+trailing" that object followed by bytes that are no JSON
\*   "list+padding"  that object followed by more than 1 MB of bytes
\*   "hugelist"      one such object that is itself longer than 1 MB
\*   "syntax"        badly formed JSON
\*   "truncated"     a JSON value that stops in the middle
\*   "wrongtype"     {"Domains": 5}
\*   "unknownfield"  {"Domains": [...], "x": 1}
\*   "empty"         no bytes
Bodies ==
    {"list", "list+trailing", "list+padding", "hugelist", "syntax", "truncated",
     "wrongtype", "unknownfield", "empty"}

\* The bodies that are not one well-formed JSON value of at most 1 MB.
MalformedBodies == Bodies \ {"list", "wrongtype", "unknownfield"}

\* The limit given to http.MaxBytesReader.
MaxBodyBytes == 1048576

\* dec.Decode(&doms) on the body behind http.MaxBytesReader, with
\* DisallowUnknownFields: "" for err == nil, else the kind of error.  The
\* decoder reads one JSON value and stops: what follows it is not read.
Decode(body) ==
    CASE body \in {"list", "list+trailing", "list+padding"} -> ""
      [] body = "hugelist" -> "http: request body too large"
      [] body = "syntax" -> "json.SyntaxError"
      [] body = "truncated" -> "io.ErrUnexpectedEOF"
      [] body = "wrongtype" -> "json.UnmarshalTypeError"
      [] body = "unknownfield" -> "json: unknown field"
      [] body = "empty" -> "io.EOF"

\* The status handleRequest answers a decoding error with.
ErrorStatus(err) ==
    CASE err \in {"json.SyntaxError", "io.ErrUnexpectedEOF", "json.UnmarshalTypeError",
                  "json: unknown field", "io.EOF"} -> 400
      [] err = "http: request body too large" -> 413
      [] OTHER -> 500

\* Whether the Content-Type test of handleRequest lets the request pass.
ContentTypeOk(ct) == ct = "" \/ MediaType(ct) = "application/json"

\* The status of the error handleRequest answers with before it calls
\* checker; 0 when it goes on to call checker.
Refusal(r) ==
    IF ~ContentTypeOk(r.contentType) THEN 415
    ELSE IF Decode(r.body) /= "" THEN ErrorStatus(Decode(r.body))
    ELSE 0

\* A well-formed request.
GoodRequest == [contentType |-> "application/json", body |-> "list"]

(* ------------------------------- state -------------------------------- *)

VARIABLES
    requests,     \* how many requests the client sends
    domainsList,  \* the decoded request body (doms.Domains)
    pc,           \* where each request's own goroutine stands
    i,            \* checker's loop index
    batch,        \* processBatch's parameter `domains`
    j,            \* position of processBatch's range loop in batch (from 1)
    wg,           \* the WaitGroup's counter
    mux,          \* TRUE while results.mux is held
    output,       \* the map made by checker, shared through SafeMap.v
    goroutines,   \* the bag of goroutines started by `go func` and not ended
    launched,     \* history: goroutines started
    batches,      \* history: calls of processBatch
    writes        \* history: the values Ins has stored per key, in order

VARIABLES
    writers       \* history: the group of the goroutine behind each store

\* The network side of checkDomain.
VARIABLES
    conns,        \* connections a request's probes hold open
    dials         \* history: connections its probes have opened

connVars == <<conns, dials>>

VARIABLES
    slices        \* history: the slices handed to processBatch, in order

\* The HTTP side of handleRequest.
VARIABLES
    req,          \* each request: its Content-Type header and its body
    response      \* what handleRequest has written: status and Data

httpVars == <<req, response>>

\* One evaluation of line 50 on its own.
VARIABLES
    notAfterSub,  \* cert.NotAfter.Sub(timeNow), in seconds
    expiresIn     \* the string built from it; "" before the line has run

certVars == <<notAfterSub, expiresIn>>

vars == <<requests, domainsList, pc, i, batch, j, wg, mux, output, goroutines,
          launched, batches, writes, writers, slices, httpVars, certVars, connVars>>

\* A map[string]string is a function on the keys it holds.
EmptyMap == [d \in {} |-> ""]

\* Put that keeps the entry a key already has.
PutIfAbsent(m, key, value) ==
    [d \in DOMAIN m \cup {key} |-> IF d \in DOMAIN m THEN m[d] ELSE value]

Put(m, key, value) == [d \in DOMAIN m \cup {key} |-> IF d = key THEN value ELSE m[d]]

\* A goroutine of request inv, started for group grp, at place at.
Goroutine(inv, grp, domain, at, value) ==
    [inv |-> inv, grp |-> grp, domain |-> domain, at |-> at, value |-> value]

One(g) == SetToBag({g})

Live(inv) == {g \in BagToSet(goroutines) : g.inv = inv}

\* Nothing has happened yet.
Quiet ==
    /\ pc = [inv \in Inv |-> "idle"]
    /\ i = [inv \in Inv |-> 0]
    /\ batch = [inv \in Inv |-> <<>>]
    /\ j = [inv \in Inv |-> 1]
    /\ wg = [inv \in Inv |-> 0]
    /\ mux = [inv \in Inv |-> FALSE]
    /\ output = [inv \in Inv |-> EmptyMap]
    /\ goroutines = EmptyBag
    /\ launched = [inv \in Inv |-> 0]
    /\ batches = [inv \in Inv |-> 0]
    /\ writes = [inv \in Inv |-> [d \in Domains |-> <<>>]]
    /\ writers = [inv \in Inv |-> [d \in Domains |-> <<>>]]
    /\ conns = [inv \in Inv |-> 0]
    /\ dials = [inv \in Inv |-> 0]
    /\ slices = [inv \in Inv |-> <<>>]
    /\ response = [inv \in Inv |-> [status |-> 0, data |-> EmptyMap]]

\* The client will send n requests, each with the same list.
Start(lists, n) ==
    /\ requests = n
    /\ \E l \in lists : domainsList = [inv \in Inv |-> l]
    /\ Quiet

\* No certificate is being formatted on its own.
NoCert == notAfterSub = 0 /\ expiresIn = ""

\* Every request is well formed.
GoodRequests == req = [inv \in Inv |-> GoodRequest]

\* One request, for any list.
Init == Start(InputLists, 1) /\ GoodRequests /\ NoCert

\* The same request twice.
InitTwice == Start(RepeatLists, 2) /\ GoodRequests /\ NoCert

\* One request of any kind; its body, where it holds a list, holds a short one.
InitHandler ==
    /\ Start(MixedLists, 1)
    /\ \E ct \in ContentTypes, body \in Bodies :
           req = [inv \in Inv |-> [contentType |-> ct, body |-> body]]
    /\ NoCert

\* Two requests with short lists of their own, sent without waiting.
InitOverlap ==
    /\ requests = 2
    /\ \E n, k \in 0..MaxOverlap :
           domainsList = [inv \in Inv |-> IF inv = 1 THEN Prefix("det", n)
                                          ELSE Prefix("mixed", k)]
    /\ Quiet
    /\ GoodRequests
    /\ NoCert

\* The validities tried on the formatting: whole days from two days past
\* expiry on, each with the offsets around the day and the half day.
Validities ==
    {d * SecondsPerDay + o : d \in (-2)..MaxDays,
                             o \in {0, 1, 43199, 43200, 43201, 86399}}

\* No request; one certificate to format.
InitFormat == Start({<<>>}, 0) /\ GoodRequests /\ notAfterSub \in Validities /\ expiresIn = ""

(* ------------------------------ actions ------------------------------- *)

\* The client sends its next request when it has the answer to the one
\* before.
Turn(inv) ==
    /\ pc[inv] = "idle"
    /\ inv <= requests
    /\ \A other \in Inv : other < inv => pc[other] \in {"responded", "rejected"}

\* handleRequest answers with http.Error and returns: the Content-Type is
\* not application/json, or dec.Decode returned an error.
Reject(inv) ==
    /\ Turn(inv)
    /\ Refusal(req[inv]) /= 0
    /\ pc' = [pc EXCEPT ![inv] = "rejected"]
    /\ response' = [response EXCEPT ![inv].status = Refusal(req[inv])]
    /\ UNCHANGED <<req, slices, certVars, requests, domainsList, i, batch, j, wg, mux,
                   output, goroutines, launched, batches, writes, writers, connVars>>

\* handleRequest up to the call of checker, and checker's first lines: the
\* body has decoded, output := make(map), i := 0.
Request(inv) ==
    /\ Turn(inv)
    /\ Refusal(req[inv]) = 0
    /\ pc' = [pc EXCEPT ![inv] = "checker"]
    /\ output' = [output EXCEPT ![inv] = EmptyMap]
    /\ i' = [i EXCEPT ![inv] = 0]
    /\ UNCHANGED <<httpVars, slices, certVars, requests, domainsList, batch, j, wg, mux, goroutines, launched, batches, writes, writers, connVars>>

\* CheckerBatch with the loop test i <= len.
CheckerBatchInclusive(inv) ==
    /\ pc[inv] = "checker"
    /\ i[inv] <= Len(domainsList[inv])
    /\ batch' = [batch EXCEPT ![inv] = SubSeq(domainsList[inv], i[inv] + 1,
                                               IF i[inv] + concurrent > Len(domainsList[inv])
                                               THEN Len(domainsList[inv])
                                               ELSE i[inv] + concurrent)]
    /\ j' = [j EXCEPT ![inv] = 1]
    /\ wg' = [wg EXCEPT ![inv] = 0]
    /\ mux' = [mux EXCEPT ![inv] = FALSE]
    /\ batches' = [batches EXCEPT ![inv] = @ + 1]
    /\ slices' = [slices EXCEPT ![inv] = Append(@, batch'[inv])]
    /\ pc' = [pc EXCEPT ![inv] = "launch"]
    /\ UNCHANGED <<httpVars, certVars, requests, domainsList, i, output, goroutines, launched, writes, writers, connVars>>

\* checker's loop test with i < len: call processBatch on the next slice;
\* processBatch makes its WaitGroup and SafeMap and starts its range loop.
CheckerBatch(inv) ==
    /\ pc[inv] = "checker"
    /\ i[inv] < Len(domainsList[inv])
    /\ batch' = [batch EXCEPT ![inv] = Slice(domainsList[inv], i[inv])]
    /\ j' = [j EXCEPT ![inv] = 1]
    /\ wg' = [wg EXCEPT ![inv] = 0]
    /\ mux' = [mux EXCEPT ![inv] = FALSE]
    /\ batches' = [batches EXCEPT ![inv] = @ + 1]
    /\ slices' = [slices EXCEPT ![inv] = Append(@, batch'[inv])]
    /\ pc' = [pc EXCEPT ![inv] = "launch"]
    /\ UNCHANGED <<httpVars, certVars, requests, domainsList, i, output, goroutines, launched, writes, writers, connVars>>

\* Request of a client that does not wait for the answer to the request
\* before: net/http serves each request in a goroutine of its own.
RequestOverlapping(inv) ==
    /\ pc[inv] = "idle"
    /\ inv <= requests
    /\ Refusal(req[inv]) = 0
    /\ pc' = [pc EXCEPT ![inv] = "checker"]
    /\ output' = [output EXCEPT ![inv] = EmptyMap]
    /\ i' = [i EXCEPT ![inv] = 0]
    /\ UNCHANGED <<httpVars, slices, certVars, requests, domainsList, batch, j, wg, mux,
                   goroutines, launched, batches, writes, writers, connVars>>

\* checker's loop test with i >= len: return output.
CheckerReturn(inv) ==
    /\ pc[inv] = "checker"
    /\ ~(i[inv] < Len(domainsList[inv]))
    /\ pc' = [pc EXCEPT ![inv] = "returned"]
    /\ UNCHANGED <<httpVars, slices, certVars, requests, domainsList, i, batch, j, wg, mux, output, goroutines,
                   launched, batches, writes, writers, connVars>>

\* handleRequest: data.Data = checker(...) has its map; json.Marshal(data)
\* starts to read it.
Marshal(inv) ==
    /\ pc[inv] = "returned"
    /\ pc' = [pc EXCEPT ![inv] = "marshal"]
    /\ UNCHANGED <<httpVars, slices, certVars, requests, domainsList, i, batch, j, wg, mux,
                   output, goroutines, launched, batches, writes, writers, connVars>>

\* handleRequest: json.Marshal has read the map; w.Write(js).
Respond(inv) ==
    /\ pc[inv] = "marshal"
    /\ pc' = [pc EXCEPT ![inv] = "responded"]
    /\ response' = [response EXCEPT ![inv] = [status |-> 200, data |-> output[inv]]]
    /\ UNCHANGED <<req, slices, certVars, requests, domainsList, i, batch, j, wg, mux,
                   output, goroutines, launched, batches, writes, writers, connVars>>

\* One turn of processBatch's range loop: wg.Add(1); go func(domain).
Launch(inv) ==
    /\ pc[inv] = "launch"
    /\ j[inv] <= Len(batch[inv])
    /\ wg' = [wg EXCEPT ![inv] = @ + 1]
    /\ goroutines' = goroutines (+)
           One(Goroutine(inv, i[inv] \div concurrent, batch[inv][j[inv]], "probe", ""))
    /\ j' = [j EXCEPT ![inv] = @ + 1]
    /\ launched' = [launched EXCEPT ![inv] = @ + 1]
    /\ UNCHANGED <<httpVars, slices, certVars, requests, domainsList, pc, i, batch, mux, output, batches, writes, writers, connVars>>

\* The range loop is through: go on to wg.Wait().
LaunchEnd(inv) ==
    /\ pc[inv] = "launch"
    /\ j[inv] > Len(batch[inv])
    /\ pc' = [pc EXCEPT ![inv] = "wait"]
    /\ UNCHANGED <<httpVars, slices, certVars, requests, domainsList, i, batch, j, wg, mux, output, goroutines,
                   launched, batches, writes, writers, connVars>>

\* Wait without the barrier: processBatch returns with goroutines running.
WaitNoBarrier(inv) ==
    /\ pc[inv] = "wait"
    /\ i' = [i EXCEPT ![inv] = @ + concurrent]
    /\ pc' = [pc EXCEPT ![inv] = "checker"]
    /\ UNCHANGED <<httpVars, slices, certVars, requests, domainsList, batch, j, wg, mux, output, goroutines,
                   launched, batches, writes, writers, connVars>>

\* wg.Wait() returns once the counter is zero; processBatch returns and
\* checker's loop adds concurrent to i.
Wait(inv) ==
    /\ pc[inv] = "wait"
    /\ wg[inv] = 0
    /\ i' = [i EXCEPT ![inv] = @ + concurrent]
    /\ pc' = [pc EXCEPT ![inv] = "checker"]
    /\ UNCHANGED <<httpVars, slices, certVars, requests, domainsList, batch, j, wg, mux, output, goroutines,
                   launched, batches, writes, writers, connVars>>

\* ProbeReturn in which a goroutine whose dial failed skips Ins.
ProbeReturnSkipsFailure(g, value) ==
    /\ g.at = "probe"
    /\ value \in checkDomain(g.domain)
    /\ dials' = [dials EXCEPT ![g.inv] = @ + (IF value = DialError(g.domain) THEN 0 ELSE 1)]
    /\ goroutines' = (goroutines (-) One(g))
                     (+) One(Goroutine(g.inv, g.grp, g.domain,
                                       IF value = DialError(g.domain) THEN "done" ELSE "lock",
                                       value))
    /\ UNCHANGED <<httpVars, slices, certVars, requests, domainsList, pc, i, batch, j, wg, mux, output,
                   launched, batches, writes, writers, conns>>

\* A goroutine's checkDomain(domain) returns value; Ins is called next.
ProbeReturn(g, value) ==
    /\ g.at = "probe"
    /\ value \in checkDomain(g.domain)
    /\ dials' = [dials EXCEPT ![g.inv] = @ + (IF value = DialError(g.domain) THEN 0 ELSE 1)]
    /\ goroutines' = (goroutines (-) One(g))
                     (+) One(Goroutine(g.inv, g.grp, g.domain, "lock", value))
    /\ UNCHANGED <<httpVars, slices, certVars, requests, domainsList, pc, i, batch, j, wg, mux, output,
                   launched, batches, writes, writers, conns>>

\* checkDomain, line 41 with err /= nil: tls.Dial has closed what it had
\* opened and returns no connection; log.Print, return err.Error().
DialFails(g) ==
    /\ g.at = "probe"
    /\ DialMayFail(g.domain)
    /\ goroutines' = (goroutines (-) One(g))
                     (+) One(Goroutine(g.inv, g.grp, g.domain, "lock", DialError(g.domain)))
    /\ UNCHANGED <<httpVars, slices, certVars, requests, domainsList, pc, i, batch, j, wg, mux, output,
                   launched, batches, writes, writers, connVars>>

\* checkDomain, line 41 with err = nil: the connection is open and its
\* Close is deferred.
DialConnects(g) ==
    /\ g.at = "probe"
    /\ DialMayConnect(g.domain)
    /\ conns' = [conns EXCEPT ![g.inv] = @ + 1]
    /\ dials' = [dials EXCEPT ![g.inv] = @ + 1]
    /\ goroutines' = (goroutines (-) One(g))
                     (+) One(Goroutine(g.inv, g.grp, g.domain, "connected", ""))
    /\ UNCHANGED <<httpVars, slices, certVars, requests, domainsList, pc, i, batch, j, wg, mux, output,
                   launched, batches, writes, writers>>

\* ProbeClose without the deferred conn.Close().
ProbeCloseLeaks(g) ==
    /\ g.at = "connected"
    /\ goroutines' = (goroutines (-) One(g))
                     (+) One(Goroutine(g.inv, g.grp, g.domain, "lock",
                                       FormatDays(NotAfterSub(g.domain))))
    /\ UNCHANGED <<httpVars, slices, certVars, requests, domainsList, pc, i, batch, j, wg, mux, output,
                   launched, batches, writes, writers, connVars>>

\* checkDomain, lines 48-52: the day count is built from the certificate,
\* and on return the deferred conn.Close() runs; Ins is called next.
ProbeClose(g) ==
    /\ g.at = "connected"
    /\ conns' = [conns EXCEPT ![g.inv] = @ - 1]
    /\ goroutines' = (goroutines (-) One(g))
                     (+) One(Goroutine(g.inv, g.grp, g.domain, "lock",
                                       FormatDays(NotAfterSub(g.domain))))
    /\ UNCHANGED <<httpVars, slices, certVars, requests, domainsList, pc, i, batch, j, wg, mux, output,
                   launched, batches, writes, writers, dials>>

\* InsLock that does not wait for the mutex.
InsLockNoMutex(g) ==
    /\ g.at = "lock"
    /\ mux' = [mux EXCEPT ![g.inv] = TRUE]
    /\ goroutines' = (goroutines (-) One(g))
                     (+) One(Goroutine(g.inv, g.grp, g.domain, "write", g.value))
    /\ UNCHANGED <<httpVars, slices, certVars, requests, domainsList, pc, i, batch, j, wg, output,
                   launched, batches, writes, writers, connVars>>

\* Ins: results.mux.Lock().
InsLock(g) ==
    /\ g.at = "lock"
    /\ ~mux[g.inv]
    /\ mux' = [mux EXCEPT ![g.inv] = TRUE]
    /\ goroutines' = (goroutines (-) One(g))
                     (+) One(Goroutine(g.inv, g.grp, g.domain, "write", g.value))
    /\ UNCHANGED <<httpVars, slices, certVars, requests, domainsList, pc, i, batch, j, wg, output,
                   launched, batches, writes, writers, connVars>>

\* Whether another goroutine is between Lock and Unlock of the same map.
Racing(g) ==
    \/ \E h \in Live(g.inv) \ {g} : h.at \in {"write", "unlock", "read", "runlock"}
    \/ CopiesIn(g, goroutines) > 1

\* InsWrite on one map that all requests share.
InsWriteShared(g) ==
    /\ g.at = "write"
    /\ output' = [output EXCEPT ![1] = Put(@, g.domain, g.value)]
    /\ writes' = [writes EXCEPT ![g.inv][g.domain] = Append(@, g.value)]
    /\ writers' = [writers EXCEPT ![g.inv][g.domain] = Append(@, g.grp)]
    /\ goroutines' = (goroutines (-) One(g))
                     (+) One(Goroutine(g.inv, g.grp, g.domain, "unlock", g.value))
    /\ UNCHANGED <<httpVars, slices, certVars, requests, domainsList, pc, i, batch, j, wg,
                   mux, launched, batches, connVars>>

\* Ins: results.v[key] = value.  Two unsynchronised writes to a Go map are
\* a data race: the entry may be written or lost.
InsWrite(g) ==
    /\ g.at = "write"
    /\ output' \in {[output EXCEPT ![g.inv] = Put(@, g.domain, g.value)]}
                   \cup (IF Racing(g) THEN {output} ELSE {})
    /\ writes' = [writes EXCEPT ![g.inv][g.domain] = Append(@, g.value)]
    /\ writers' = [writers EXCEPT ![g.inv][g.domain] = Append(@, g.grp)]
    /\ goroutines' = (goroutines (-) One(g))
                     (+) One(Goroutine(g.inv, g.grp, g.domain, "unlock", g.value))
    /\ UNCHANGED <<httpVars, slices, certVars, requests, domainsList, pc, i, batch, j, wg, mux, launched, batches, connVars>>

\* InsUnlock that leaves the mutex locked.
InsUnlockKeepsLock(g) ==
    /\ g.at = "unlock"
    /\ goroutines' = (goroutines (-) One(g))
                     (+) One(Goroutine(g.inv, g.grp, g.domain, "done", g.value))
    /\ UNCHANGED <<httpVars, slices, certVars, requests, domainsList, pc, i, batch, j, wg, mux, output,
                   launched, batches, writes, writers, connVars>>

\* Ins: results.mux.Unlock(); Ins returns.
InsUnlock(g) ==
    /\ g.at = "unlock"
    /\ mux' = [mux EXCEPT ![g.inv] = FALSE]
    /\ goroutines' = (goroutines (-) One(g))
                     (+) One(Goroutine(g.inv, g.grp, g.domain, "done", g.value))
    /\ UNCHANGED <<httpVars, slices, certVars, requests, domainsList, pc, i, batch, j, wg, output,
                   launched, batches, writes, writers, connVars>>

\* WgDone of a goroutine that ends without wg.Done().
WgDoneForgets(g) ==
    /\ g.at = "done"
    /\ goroutines' = goroutines (-) One(g)
    /\ UNCHANGED <<httpVars, slices, certVars, requests, domainsList, pc, i, batch, j, wg, mux, output,
                   launched, batches, writes, writers, connVars>>

\* The deferred wg.Done() runs and the goroutine ends.
WgDone(g) ==
    /\ g.at = "done"
    /\ wg' = [wg EXCEPT ![g.inv] = @ - 1]
    /\ goroutines' = goroutines (-) One(g)
    /\ UNCHANGED <<httpVars, slices, certVars, requests, domainsList, pc, i, batch, j, mux, output,
                   launched, batches, writes, writers, connVars>>

Results == UNION {checkDomain(d) : d \in Domains}

Next ==
    \/ \E inv \in Inv : Request(inv)
    \/ \E inv \in Inv : CheckerBatch(inv)
    \/ \E inv \in Inv : CheckerReturn(inv)
    \/ \E inv \in Inv : Marshal(inv)
    \/ \E inv \in Inv : Respond(inv)
    \/ \E inv \in Inv : Launch(inv)
    \/ \E inv \in Inv : LaunchEnd(inv)
    \/ \E inv \in Inv : Wait(inv)
    \/ \E g \in BagToSet(goroutines) : \E value \in Results : ProbeReturn(g, value)
    \/ \E g \in BagToSet(goroutines) : InsLock(g)
    \/ \E g \in BagToSet(goroutines) : InsWrite(g)
    \/ \E g \in BagToSet(goroutines) : InsUnlock(g)
    \/ \E g \in BagToSet(goroutines) : WgDone(g)

Spec == Init /\ [][Next]_vars

\* The steps of the goroutine that serves a request.
Handler ==
    \E inv \in Inv :
        \/ Request(inv) \/ CheckerBatch(inv) \/ CheckerReturn(inv)
        \/ Marshal(inv) \/ Respond(inv)
        \/ Launch(inv) \/ LaunchEnd(inv) \/ Wait(inv)

\* The steps of the goroutines processBatch starts.
Workers ==
    \E g \in BagToSet(goroutines) :
        \/ \E value \in Results : ProbeReturn(g, value)
        \/ InsLock(g) \/ InsWrite(g) \/ InsUnlock(g) \/ WgDone(g)

\* The Go scheduler does not leave the handler waiting forever when it can
\* run, nor all of the workers that can run; a probe is a step only while
\* its dial can still return.
Fairness == WF_vars(Handler) /\ WF_vars(Workers)

InitFair == Start(FairLists, 1) /\ GoodRequests /\ NoCert

SpecFair == InitFair /\ [][Next]_vars /\ Fairness

SpecTwice == InitTwice /\ [][Next]_vars

\* Requests served side by side.
NextOverlap ==
    \/ \E inv \in Inv : RequestOverlapping(inv)
    \/ \E inv \in Inv : CheckerBatch(inv)
    \/ \E inv \in Inv : CheckerReturn(inv)
    \/ \E inv \in Inv : Marshal(inv)
    \/ \E inv \in Inv : Respond(inv)
    \/ \E inv \in Inv : Launch(inv)
    \/ \E inv \in Inv : LaunchEnd(inv)
    \/ \E inv \in Inv : Wait(inv)
    \/ \E g \in BagToSet(goroutines) : \E value \in Results : ProbeReturn(g, value)
    \/ \E g \in BagToSet(goroutines) : InsLock(g)
    \/ \E g \in BagToSet(goroutines) : InsWrite(g)
    \/ \E g \in BagToSet(goroutines) : InsUnlock(g)
    \/ \E g \in BagToSet(goroutines) : WgDone(g)

SpecOverlap == InitOverlap /\ [][NextOverlap]_vars

\* One request, with checkDomain taken in its steps.
NextConn ==
    \/ \E inv \in Inv : Request(inv)
    \/ \E inv \in Inv : CheckerBatch(inv)
    \/ \E inv \in Inv : CheckerReturn(inv)
    \/ \E inv \in Inv : Marshal(inv)
    \/ \E inv \in Inv : Respond(inv)
    \/ \E inv \in Inv : Launch(inv)
    \/ \E inv \in Inv : LaunchEnd(inv)
    \/ \E inv \in Inv : Wait(inv)
    \/ \E g \in BagToSet(goroutines) : DialFails(g)
    \/ \E g \in BagToSet(goroutines) : DialConnects(g)
    \/ \E g \in BagToSet(goroutines) : ProbeClose(g)
    \/ \E g \in BagToSet(goroutines) : InsLock(g)
    \/ \E g \in BagToSet(goroutines) : InsWrite(g)
    \/ \E g \in BagToSet(goroutines) : InsUnlock(g)
    \/ \E g \in BagToSet(goroutines) : WgDone(g)

SpecConn == InitFair /\ [][NextConn]_vars

\* handleRequest on requests of every kind.
NextHandler == Next \/ \E inv \in Inv : Reject(inv)

SpecHandler == InitHandler /\ [][NextHandler]_vars

(* ----------------------- a SafeMap on its own ------------------------- *)

\* The SafeMap is that of request 1: v is output[1], its lock mux[1].
\* Callers are goroutines of their own, counted by wg[1] and launched[1].

\* The keys and values the callers use.
Keys == {"up", "flaky"}

\* No request; an empty SafeMap.
InitSafeMap == Start({<<>>}, 0) /\ GoodRequests /\ NoCert

\* go results.Ins(key, value), after wg.Add(1).
CallIns(key, value) ==
    /\ launched[1] < MaxCalls
    /\ value \in checkDomain(key)
    /\ launched' = [launched EXCEPT ![1] = @ + 1]
    /\ wg' = [wg EXCEPT ![1] = @ + 1]
    /\ goroutines' = goroutines (+) One(Goroutine(1, 0, key, "lock", value))
    /\ UNCHANGED <<httpVars, slices, certVars, requests, domainsList, pc, i, batch, j, mux, output,
                   batches, writes, writers, connVars>>

\* go results.Retrieve(key), after wg.Add(1).
CallRetrieve(key) ==
    /\ launched[1] < MaxCalls
    /\ launched' = [launched EXCEPT ![1] = @ + 1]
    /\ wg' = [wg EXCEPT ![1] = @ + 1]
    /\ goroutines' = goroutines (+) One(Goroutine(1, 0, key, "rlock", ""))
    /\ UNCHANGED <<httpVars, slices, certVars, requests, domainsList, pc, i, batch, j, mux, output,
                   batches, writes, writers, connVars>>

\* Retrieve: results.mux.Lock().
RetrieveLock(g) ==
    /\ g.at = "rlock"
    /\ ~mux[g.inv]
    /\ mux' = [mux EXCEPT ![g.inv] = TRUE]
    /\ goroutines' = (goroutines (-) One(g))
                     (+) One(Goroutine(g.inv, g.grp, g.domain, "read", ""))
    /\ UNCHANGED <<httpVars, slices, certVars, requests, domainsList, pc, i, batch, j, wg, output,
                   launched, batches, writes, writers, connVars>>

\* m[key] of a Go map: the entry, or "" when the key is absent.
Lookup(map, key) == IF key \in DOMAIN map THEN map[key] ELSE ""

\* RetrieveRead that makes the entry it does not find.
RetrieveReadInserts(g) ==
    /\ g.at = "read"
    /\ output' = [output EXCEPT ![g.inv] =
                      IF g.domain \in DOMAIN @ THEN @ ELSE Put(@, g.domain, "")]
    /\ goroutines' = (goroutines (-) One(g))
                     (+) One(Goroutine(g.inv, g.grp, g.domain, "runlock",
                                       Lookup(output[g.inv], g.domain)))
    /\ UNCHANGED <<httpVars, slices, certVars, requests, domainsList, pc, i, batch, j, wg, mux,
                   launched, batches, writes, writers, connVars>>

\* Retrieve: the operand of return, results.v[key], is evaluated.
RetrieveRead(g) ==
    /\ g.at = "read"
    /\ goroutines' = (goroutines (-) One(g))
                     (+) One(Goroutine(g.inv, g.grp, g.domain, "runlock",
                                       Lookup(output[g.inv], g.domain)))
    /\ UNCHANGED <<httpVars, slices, certVars, requests, domainsList, pc, i, batch, j, wg, mux, output,
                   launched, batches, writes, writers, connVars>>

\* Retrieve: the deferred results.mux.Unlock() runs and Retrieve returns
\* the value read.
RetrieveUnlock(g) ==
    /\ g.at = "runlock"
    /\ mux' = [mux EXCEPT ![g.inv] = FALSE]
    /\ goroutines' = (goroutines (-) One(g))
                     (+) One(Goroutine(g.inv, g.grp, g.domain, "done", g.value))
    /\ UNCHANGED <<httpVars, slices, certVars, requests, domainsList, pc, i, batch, j, wg, output,
                   launched, batches, writes, writers, connVars>>

NextSafeMap ==
    \/ \E key \in Keys : \E value \in Results : CallIns(key, value)
    \/ \E key \in Keys : CallRetrieve(key)
    \/ \E g \in BagToSet(goroutines) : InsLock(g)
    \/ \E g \in BagToSet(goroutines) : InsWrite(g)
    \/ \E g \in BagToSet(goroutines) : InsUnlock(g)
    \/ \E g \in BagToSet(goroutines) : RetrieveLock(g)
    \/ \E g \in BagToSet(goroutines) : RetrieveRead(g)
    \/ \E g \in BagToSet(goroutines) : RetrieveUnlock(g)
    \/ \E g \in BagToSet(goroutines) : WgDone(g)

SpecSafeMap == InitSafeMap /\ [][NextSafeMap]_vars

(* ---------------------- the formatting on its own --------------------- *)

\* checkDomain line 50: expiresIn := FormatFloat(Sub(timeNow).Hours()/24, 'f', 0, 64).
Format ==
    /\ expiresIn = ""
    /\ expiresIn' = FormatDays(notAfterSub)
    /\ UNCHANGED <<httpVars, slices, notAfterSub, requests, domainsList, pc, i, batch, j, wg, mux, output,
                   goroutines, launched, batches, writes, writers, connVars>>

NextFormat == Format

SpecFormat == InitFormat /\ [][NextFormat]_vars

(* --------------------------- derived state ---------------------------- *)

\* How many goroutines of request inv stand at one of the places.
CountAt(inv, places) ==
    BagCardinality([g \in {h \in Live(inv) : h.at \in places} |-> CopiesIn(g, goroutines)])

\* Probes (checkDomain calls) started and not returned.
InFlight(inv) == CountAt(inv, {"probe", "connected"})

Running(inv) == CountAt(inv, {"probe", "connected", "lock", "write", "unlock", "done"})

Min(a, b) == IF a < b THEN a ELSE b

\* The requests for which checker has been called.
Started == {inv \in Inv : pc[inv] \notin {"idle", "rejected"}}

\* The requests for which checker has returned.
Returned == {inv \in Inv : pc[inv] \in {"returned", "marshal", "responded"}}

(* ------------------------------ claims -------------------------------- *)

\* C1: the probes of one checker call that have started and not returned
\* never number more than concurrent (10), and never more than the length
\* of a list shorter than that.
C1_InFlightWithinCap ==
    \A inv \in Inv :
        /\ InFlight(inv) <= concurrent
        /\ InFlight(inv) <= Len(domainsList[inv])

\* A list longer than the cap with a full group of probes in flight.
C1_Witness ==
    \E inv \in Inv : Len(domainsList[inv]) > concurrent /\ InFlight(inv) = concurrent

\* C2: groups are strictly sequential: the goroutines alive at one time
\* all belong to one group, and while a goroutine of group g is alive every
\* probe of the groups before g has returned and its domain is in the map.
C2_GroupsSequential ==
    \A inv \in Inv : \A g \in Live(inv) :
        /\ \A h \in Live(inv) : h.grp = g.grp
        /\ launched[inv] - Running(inv) >= g.grp * concurrent
        /\ \A k \in 1..(g.grp * concurrent) : domainsList[inv][k] \in DOMAIN output[inv]

\* A probe of the second group in flight.
C2_Witness ==
    \E inv \in Inv : \E g \in Live(inv) : g.grp = 1 /\ g.at = "probe"

\* C3: when checker returns for a non-empty list, the keys of the map are
\* exactly the distinct domains of the list, min(L, distinct) of them.
C3_KeysAreTheDomains ==
    \A inv \in Returned :
        Len(domainsList[inv]) > 0 =>
            /\ DOMAIN output[inv] = Range(domainsList[inv])
            /\ Cardinality(DOMAIN output[inv])
                   = Min(Len(domainsList[inv]), Cardinality(Range(domainsList[inv])))

\* checker has returned for a list with a repeated domain and three keys.
C3_Witness ==
    \E inv \in Returned :
        /\ Len(domainsList[inv]) = 4
        /\ Cardinality(DOMAIN output[inv]) = 3

\* C4: once checker has returned, none of its goroutines is alive, the
\* WaitGroup is at zero, the lock is free, and the map never changes again.
C4_NoWriterAfterReturn ==
    /\ [](\A inv \in Returned : Live(inv) = {} /\ wg[inv] = 0 /\ ~mux[inv])
    /\ [][\A inv \in Returned : output'[inv] = output[inv]]_vars

\* checker has returned a map filled by two groups.
C4_Witness ==
    \E inv \in Returned :
        /\ Len(domainsList[inv]) > concurrent
        /\ DOMAIN output[inv] /= {}
        /\ Live(inv) = {}

\* The lists in which every domain occurs once.
Distinct(list) == Cardinality(Range(list)) = Len(list)

\* C5: for a list of N distinct domains, whose N goroutines each call Ins
\* once, no entry is lost in any interleaving: at every moment the map
\* holds one key per Ins that has written, each with the value that Ins
\* was given, and exactly N keys when checker returns.
C5_NoLostInsert ==
    \A inv \in Started :
        Distinct(domainsList[inv]) =>
            /\ Cardinality(DOMAIN output[inv])
                   = launched[inv] - CountAt(inv, {"probe", "lock", "write"})
            /\ \A d \in Domains :
                   /\ Len(writes[inv][d]) = 1 =>
                          d \in DOMAIN output[inv] /\ output[inv][d] = writes[inv][d][1]
                   /\ Len(writes[inv][d]) <= 1
            /\ inv \in Returned =>
                   Cardinality(DOMAIN output[inv]) = Len(domainsList[inv])

\* Three writers of distinct domains at the lock together: one has
\* written and holds it, two wait for it.
C5_Witness ==
    \E inv \in Started :
        /\ Distinct(domainsList[inv])
        /\ Len(domainsList[inv]) = 3
        /\ CountAt(inv, {"unlock"}) = 1
        /\ CountAt(inv, {"lock"}) = 2
        /\ Cardinality(DOMAIN output[inv]) = 1

\* ceil(L / concurrent): the groups a list of length L is cut into.
Groups(list) == (Len(list) + concurrent - 1) \div concurrent

Occurrences(list, d) == Cardinality({k \in 1..Len(list) : list[k] = d})

Last(seq) == seq[Len(seq)]

\* C6: a failed probe stays with its own domain and does not stop the
\* batch: when checker returns, every group has run and one goroutine was
\* started per list position; the entry of a domain whose dial fails is
\* the error text of that dial, and the entry of a domain whose dial
\* succeeds is its day count, the same whatever happened to the others.
C6_FailureIsLocal ==
    \A inv \in Returned :
        /\ launched[inv] = Len(domainsList[inv])
        /\ batches[inv] = Groups(domainsList[inv])
        /\ \A d \in Range(domainsList[inv]) :
               /\ d \in DOMAIN output[inv]
               /\ output[inv][d] \in checkDomain(d)
               /\ ~DialMayFail(d) => output[inv][d] = FormatDays(NotAfterSub(d))
               /\ ~DialMayConnect(d) => output[inv][d] = DialError(d)

\* checker has returned for a list of two groups in which the probe of
\* the first domain failed: the map holds the error and the day count.
C6_Witness ==
    \E inv \in Returned :
        /\ Len(domainsList[inv]) > concurrent
        /\ domainsList[inv][1] = "down"
        /\ output[inv]["down"] = "dial tcp down:443: connect: connection refused"
        /\ output[inv]["up"] = "30"

\* C7: every occurrence of a domain gets its own goroutine and its own
\* Ins, so when checker returns L goroutines have been started, each
\* domain has been stored as often as it occurs, the map has one entry
\* per distinct domain, and that entry is the value stored last.
C7_DuplicatesLastWriteWins ==
    \A inv \in Returned :
        /\ launched[inv] = Len(domainsList[inv])
        /\ Cardinality(DOMAIN output[inv]) = Cardinality(Range(domainsList[inv]))
        /\ \A d \in Domains :
               /\ Len(writes[inv][d]) = Occurrences(domainsList[inv], d)
               /\ Len(writes[inv][d]) > 0 =>
                      d \in DOMAIN output[inv] /\ output[inv][d] = Last(writes[inv][d])

\* The list <<flaky, down, up, flaky>> served twice; the two probes of
\* "flaky" gave different results both times, the error was stored last
\* the first time and the day count the second time.
C7_Witness ==
    /\ Returned = Inv
    /\ domainsList[1] = <<"flaky", "down", "up", "flaky">>
    /\ writes[1]["flaky"] = <<FormatDays(NotAfterSub("flaky")), DialError("flaky")>>
    /\ output[1]["flaky"] = DialError("flaky")
    /\ writes[2]["flaky"] = <<DialError("flaky"), FormatDays(NotAfterSub("flaky"))>>
    /\ output[2]["flaky"] = "90"

\* C8: for an empty list checker starts no goroutine and never calls
\* processBatch, and the map it returns is empty.
C8_EmptyList ==
    \A inv \in Inv :
        Len(domainsList[inv]) = 0 =>
            /\ launched[inv] = 0
            /\ batches[inv] = 0
            /\ Live(inv) = {}
            /\ pc[inv] \in {"idle", "checker", "returned", "marshal", "responded"}
            /\ output[inv] = EmptyMap

\* checker has returned for the empty list.
C8_Witness ==
    \E inv \in Returned : domainsList[inv] = <<>> /\ output[inv] = EmptyMap

\* The goroutines whose probe never returns.
Hung(inv) == {g \in Live(inv) : g.at = "probe" /\ checkDomain(g.domain) = {}}

\* C9: while a probe that never returns is in flight, checker has not
\* returned and is still in that probe's group: the WaitGroup is above
\* zero, i has not moved on, and no goroutine of a later group exists.
C9_HangStallsBatch ==
    \A inv \in Inv : \A g \in Hung(inv) :
        /\ pc[inv] \in {"launch", "wait"}
        /\ wg[inv] >= 1
        /\ i[inv] = g.grp * concurrent
        /\ batches[inv] = g.grp + 1
        /\ launched[inv] <= (g.grp + 1) * concurrent
        /\ \A h \in Live(inv) : h.grp = g.grp

\* A list of two groups with a silent host in the first: every other
\* goroutine of the group has stored its result and ended, and checker
\* stands at wg.Wait() with the second group not started.
C9_Witness ==
    \E inv \in Inv :
        /\ Len(domainsList[inv]) > concurrent
        /\ Hung(inv) /= {}
        /\ Running(inv) = 1
        /\ wg[inv] = 1
        /\ pc[inv] = "wait"
        /\ Len(writes[inv]["up"]) = concurrent - 1
        /\ "up" \in DOMAIN output[inv]

\* The lists for which checkDomain is a function of the domain.
Deterministic(list) == \A d \in Range(list) : Cardinality(checkDomain(d)) = 1

\* C10: two checker calls on the same list of domains with a
\* deterministic probe return the same map.
C10_Idempotent ==
    \A a, b \in Returned :
        (domainsList[a] = domainsList[b] /\ Deterministic(domainsList[a]))
            => output[a] = output[b]

\* Both calls have returned for a deterministic list of two groups with
\* repeated domains and two keys.
C10_Witness ==
    /\ Returned = Inv
    /\ Deterministic(domainsList[1])
    /\ Len(domainsList[1]) > concurrent
    /\ Cardinality(DOMAIN output[2]) = 2
    /\ output[1] = output[2]

\* The number a string of digits, with or without a sign, stands for.
RECURSIVE Atoi(_)
Atoi(str) ==
    IF str = "" THEN 0
    ELSE IF SubSeq(str, 1, 1) = "-" THEN Atoi(SubSeq(str, 2, Len(str)))
    ELSE 10 * Atoi(SubSeq(str, 1, Len(str) - 1))
         + (CHOOSE d \in 0..9 : Digit(d) = SubSeq(str, Len(str), Len(str)))

Abs(n) == IF n < 0 THEN -n ELSE n

\* C11, as stated: the result is the quotient seconds / 86400 cut off
\* toward zero, so 30 days less a second give "29".
C11_Original ==
    expiresIn /= "" =>
        /\ Atoi(expiresIn) = Abs(notAfterSub) \div SecondsPerDay
        /\ (notAfterSub = 30 * SecondsPerDay - 1 => expiresIn = "29")

\* C11, amended: the result is the integer nearest to the quotient
\* seconds / 86400, the even one when two are equally near, written in
\* base 10 with no decimals and with a "-" exactly when the validity is
\* negative; 30 days give "30" and so do 30 days less a second.
C11_RoundsToNearest ==
    expiresIn /= "" =>
        LET n == Atoi(expiresIn)
            off == Abs(n * SecondsPerDay - Abs(notAfterSub))
        IN  /\ 2 * off <= SecondsPerDay
            /\ 2 * off = SecondsPerDay => n % 2 = 0
            /\ (SubSeq(expiresIn, 1, 1) = "-") = (notAfterSub < 0)
            /\ expiresIn = (IF notAfterSub < 0 THEN "-" ELSE "") \o Itoa(n)
            /\ (notAfterSub = 30 * SecondsPerDay => expiresIn = "30")
            /\ (notAfterSub = 30 * SecondsPerDay - 1 => expiresIn = "30")

\* 30 days less a second have been formatted.
C11_Witness ==
    notAfterSub = 30 * SecondsPerDay - 1 /\ expiresIn = "30"

\* The slices of a sequence of slices, joined in order.
RECURSIVE Concat(_)
Concat(seqs) == IF seqs = <<>> THEN <<>> ELSE Head(seqs) \o Concat(Tail(seqs))

\* C12: checker cuts a list of length L into ceil(L/10) slices that follow
\* one another without gap or overlap: at every moment the slices handed
\* to processBatch so far, joined, are the first domains of the list up to
\* the end of the current slice; each slice before the last has exactly
\* 10 domains and the last between 1 and 10; on return there are
\* ceil(L/10) of them and they make up the whole list.
C12_Partition ==
    \A inv \in Inv :
        LET list == domainsList[inv]
            done == Concat(slices[inv])
            n == Len(slices[inv])
        IN  /\ done = SubSeq(list, 1, Len(done))
            /\ Len(done) = Min(n * concurrent, Len(list))
            /\ \A k \in 1..n :
                   /\ slices[inv][k] = SubSeq(list, (k - 1) * concurrent + 1,
                                             Min(k * concurrent, Len(list)))
                   /\ k < n => Len(slices[inv][k]) = concurrent
                   /\ Len(slices[inv][k]) \in 1..concurrent
            /\ pc[inv] \in {"launch", "wait"} => batch[inv] = slices[inv][n]
            /\ inv \in Returned =>
                   /\ n = Groups(list)
                   /\ done = list
                   /\ Len(list) < concurrent => n <= 1

\* checker has returned for a list cut into a slice of 10 and a shorter one.
C12_Witness ==
    \E inv \in Returned :
        /\ Len(slices[inv]) = 2
        /\ Len(slices[inv][1]) = concurrent
        /\ Len(slices[inv][2]) \in 1..(concurrent - 1)
        /\ slices[inv][1] \o slices[inv][2] = domainsList[inv]

\* The goroutines of request inv between Lock and Unlock.
Holders(inv) == CountAt(inv, {"write", "unlock", "read", "runlock"})

\* C13: Retrieve returns the value stored last for its key, or "" when
\* none was stored; no step of Retrieve changes the map, so an absent key
\* stays absent; and the lock is held exactly while a call is between its
\* Lock and its Unlock, so it is free once Retrieve has returned.
C13_RetrieveReadsOnly ==
    /\ [](\A inv \in Inv : \A g \in Live(inv) :
             g.at = "runlock" =>
                 /\ g.value = (IF writes[inv][g.domain] = <<>> THEN ""
                               ELSE Last(writes[inv][g.domain]))
                 /\ writes[inv][g.domain] = <<>> => g.domain \notin DOMAIN output[inv])
    /\ [](\A inv \in Inv : mux[inv] = (Holders(inv) = 1) /\ Holders(inv) <= 1)
    /\ [][(\E g \in BagToSet(goroutines) :
                RetrieveLock(g) \/ RetrieveRead(g) \/ RetrieveUnlock(g))
              => output' = output]_vars

\* A Retrieve has returned "" for a key never stored while another key
\* has an entry, and a second Retrieve holds the value stored last for a
\* key that was stored.
C13_Witness ==
    /\ \E g \in Live(1) : g.at = "done" /\ g.value = "" /\ g.domain \notin DOMAIN output[1]
    /\ \E g \in Live(1) : g.at = "runlock" /\ g.value /= ""
    /\ DOMAIN output[1] /= {}

\* C14: each checker call has a map of its own, empty when the call
\* starts and written only by the goroutines of that call: with two calls
\* running side by side, a map holds only domains of its own list, as many
\* stores per domain as its own list has occurrences at most, each entry
\* being the value its own goroutines stored last, and on return exactly
\* the domains of its own list.
C14_MapPerInvocation ==
    \A inv \in Inv :
        /\ (pc[inv] = "idle" \/ (pc[inv] = "checker" /\ batches[inv] = 0))
              => output[inv] = EmptyMap
        /\ DOMAIN output[inv] \subseteq Range(domainsList[inv])
        /\ \A d \in Domains :
               /\ Len(writes[inv][d]) <= Occurrences(domainsList[inv], d)
               /\ (d \in DOMAIN output[inv]) = (writes[inv][d] /= <<>>)
               /\ d \in DOMAIN output[inv] => output[inv][d] = Last(writes[inv][d])
        /\ inv \in Returned => DOMAIN output[inv] = Range(domainsList[inv])

\* Two calls with different lists are running at once, goroutines of both
\* are alive, and each map has an entry the other list does not name.
C14_Witness ==
    /\ domainsList[1] = <<"down", "up">>
    /\ domainsList[2] = <<"flaky", "down">>
    /\ Live(1) /= {} /\ Live(2) /= {}
    /\ DOMAIN output[1] = {"up"}
    /\ DOMAIN output[2] = {"flaky"}

\* Goroutines of the request that are reading or writing the map: the
\* ones between Lock and Unlock, and the handler while json.Marshal reads
\* the map checker returned.
Accessors(inv) == Holders(inv) + (IF pc[inv] = "marshal" THEN 1 ELSE 0)

\* C15 as stated: the consumer too reads the map under the lock.
C15_Original ==
    \A inv \in Inv :
        /\ pc[inv] = "marshal" => mux[inv]
        /\ Accessors(inv) <= 1

\* C15: Ins takes the map's lock around its store; the consumer reads the
\* returned map without the lock, after every goroutine of the call has
\* ended.  At most one goroutine is reading or writing the map, the lock is
\* held exactly while an Ins is between Lock and Unlock, and it is free
\* once checker has returned.
C15_OneAccessor ==
    \A inv \in Inv :
        /\ Accessors(inv) <= 1
        /\ mux[inv] = (Holders(inv) = 1)
        /\ inv \in Returned => ~mux[inv] /\ Live(inv) = {}

\* The consumer is reading a map of three entries, stored by goroutines
\* that queued for the lock, and the lock is free.
C15_Witness ==
    \E inv \in Inv :
        /\ pc[inv] = "marshal"
        /\ ~mux[inv]
        /\ Cardinality(DOMAIN output[inv]) = 3

\* The domains of the groups handed to processBatch so far.
DomainsThrough(inv) ==
    Range(SubSeq(domainsList[inv], 1, Min(i[inv], Len(domainsList[inv]))))

\* C16: when the barrier of a group clears, the keys of the map are the
\* domains of the groups up to that one; a goroutine that has reached its
\* wg.Done has its entry in the map, a day count or an error text; the
\* keys are always among the domains of the list, and no step removes one.
C16_KeysAtBarrier ==
    /\ [](\A inv \in Started :
             /\ DOMAIN output[inv] \subseteq Range(domainsList[inv])
             /\ pc[inv] = "checker" => DOMAIN output[inv] = DomainsThrough(inv)
             /\ (pc[inv] = "wait" /\ wg[inv] = 0)
                    => Range(batch[inv]) \subseteq DOMAIN output[inv]
             /\ \A g \in Live(inv) :
                    g.at = "done" =>
                        /\ g.domain \in DOMAIN output[inv]
                        /\ output[inv][g.domain] \in checkDomain(g.domain))
    /\ [][\A inv \in Inv : DOMAIN output[inv] \subseteq DOMAIN output'[inv]]_vars

\* The barrier of the first group has cleared, the map has the key of that
\* group, and the second group holds a domain that has no entry yet.
C16_Witness ==
    \E inv \in Started :
        /\ pc[inv] = "checker"
        /\ i[inv] = concurrent
        /\ Len(domainsList[inv]) > concurrent
        /\ DOMAIN output[inv] = {"up"}
        /\ Range(domainsList[inv]) = {"up", "down"}

\* The requests none of whose hosts leaves its probe without an answer.
Answering == {inv \in Inv : "silent" \notin Range(domainsList[inv])}

\* C17: when every probe returns and the goroutines are scheduled fairly,
\* a checker call returns: each barrier it waits at clears, goroutines
\* queued at the lock get it, the WaitGroup counter is never negative and
\* is zero whenever a barrier has cleared.
C17_CheckerReturns ==
    /\ \A inv \in Inv :
           /\ (pc[inv] = "checker" /\ inv \in Answering) ~> (inv \in Returned)
           /\ (pc[inv] = "wait" /\ inv \in Answering) ~> (pc[inv] = "checker")
           /\ (CountAt(inv, {"lock"}) > 0) ~> (CountAt(inv, {"lock"}) = 0)
    /\ [](\A inv \in Inv :
             /\ wg[inv] >= 0
             /\ pc[inv] \in {"checker", "returned"} => wg[inv] = 0)

\* checker has returned from a list of two groups whose probes all
\* answered, some with a refusal.
C17_Witness ==
    \E inv \in Returned \cap Answering :
        /\ batches[inv] = 2
        /\ wg[inv] = 0
        /\ \E d \in DOMAIN output[inv] : output[inv][d] = DialError(d)

\* The group of the last position at which the list names the domain.
LatestGroup(list, d) ==
    ((CHOOSE k \in 1..Len(list) :
         list[k] = d /\ \A l \in (k + 1)..Len(list) : list[l] /= d) - 1) \div concurrent

\* C18: for a domain named in several groups, the stores happen in the
\* order of the groups, and when checker returns the entry is the value
\* stored last, by a goroutine of the latest group that names the domain.
C18_LatestGroupWins ==
    \A inv \in Started :
        /\ \A d \in Domains :
               \A a, b \in 1..Len(writers[inv][d]) :
                   a < b => writers[inv][d][a] <= writers[inv][d][b]
        /\ inv \in Returned =>
               \A d \in Range(domainsList[inv]) :
                   /\ d \in DOMAIN output[inv]
                   /\ output[inv][d] = Last(writes[inv][d])
                   /\ Last(writers[inv][d]) = LatestGroup(domainsList[inv], d)

\* checker has returned: the probe of a host in the first group was
\* refused, the probe of the same host in the second group got its
\* certificate, and the entry is the day count.
C18_Witness ==
    \E inv \in Returned :
        /\ writers[inv]["flaky"] = <<0, 1>>
        /\ writes[inv]["flaky"] = <<DialError("flaky"), FormatDays(NotAfterSub("flaky"))>>
        /\ output[inv]["flaky"] = FormatDays(NotAfterSub("flaky"))

\* C19: a probe opens at most one connection, and none when its dial
\* fails; the connections open are those of the goroutines between their
\* dial and the return of checkDomain, so a goroutine that has gone on to
\* Ins has closed its own; and none is open once checker has returned.
C19_OneConnectionPerProbe ==
    \A inv \in Inv :
        /\ conns[inv] = CountAt(inv, {"connected"})
        /\ dials[inv] <= launched[inv] - CountAt(inv, {"probe"})
        /\ \A g \in Live(inv) :
               g.at \in {"lock", "write", "unlock", "done"} /\ g.value = DialError(g.domain)
                   => dials[inv] < launched[inv] - CountAt(inv, {"probe"})
        /\ inv \in Returned => conns[inv] = 0

\* Of four probes, two have connected: one still holds its connection,
\* the other has closed it and is storing its day count; a third was
\* refused and opened none.
C19_Witness ==
    \E inv \in Inv :
        /\ conns[inv] = 1
        /\ dials[inv] = 2
        /\ \E g \in Live(inv) : g.at = "write" /\ g.value = FormatDays(NotAfterSub(g.domain))
        /\ \E g \in Live(inv) : g.at = "lock" /\ g.value = DialError(g.domain)

\* The requests the handler is to refuse: a Content-Type that is not
\* application/json, or a body that is not exactly one object holding a
\* list of domains and nothing else, within the size limit.
Refusable ==
    {r \in [contentType : ContentTypes, body : Bodies] :
        \/ r.contentType /= "" /\ MediaType(r.contentType) /= "application/json"
        \/ r.body /= "list"}

\* C20: a request with a non-JSON content type, or a malformed, empty or
\* oversized body, or an unknown field, is answered with an error status
\* and starts no probe; checker runs only for a request whose body decoded.
C20_RejectsBeforeChecker ==
    \A inv \in Inv :
        /\ (req[inv] \in Refusable /\ pc[inv] /= "idle") =>
               /\ pc[inv] = "rejected"
               /\ response[inv].status \in {400, 413, 415}
        /\ pc[inv] = "rejected" => launched[inv] = 0 /\ batches[inv] = 0
        /\ inv \in Started => Decode(req[inv].body) = ""

====
